---- MODULE Spec2Model ----
(***************************************************************************)
(* The download engine of src-tauri/src/download_manager.rs:               *)
(*   DownloadManager  - the registry download_tasks and the two semaphores *)
(*   DownloadTask     - one per created chapter download: the state cell   *)
(*                      (a tokio watch channel), the two image counters,   *)
(*                      the driver process() and its body download_chapter *)
(*   DownloadImgTask  - one per page: process() and its body download_img  *)
(* together with the two directories of a chapter on disk.                 *)
(*                                                                         *)
(* Drivers and image tasks are tokio tasks on a multi-threaded runtime and *)
(* the create/pause/resume/cancel calls come from other threads, so every  *)
(* access to a shared object (state cell, semaphore, registry, counter,    *)
(* directory) is a step of its own that the others may interleave with.    *)
(* A tokio::select! polls its enabled branches in a random order: when a   *)
(* state change is pending, the body branch may still be polled first and  *)
(* run up to its next suspension point before the change is handled.       *)
(***************************************************************************)
EXTENDS Integers, Sequences, FiniteSets, TLC

\* ---------------------------------------------------------------- bounds
MaxTasks == 2       \* DownloadTask instances ever created
MaxPages == 2       \* pages of the longest chapter
MaxCalls == 3       \* create/pause/resume/cancel calls made by the caller

MaxChapterConcurrency == 2   \* largest configured chapter_concurrency
MaxImgConcurrency == 1       \* largest configured img_concurrency
MaxIntervalSec == 2          \* configured chapter_download_interval_sec
MaxRisk == 2                 \* risk-control responses the chapter accessor gives one task

\* get_chapter_with_retry
RETRY_WAIT_TIME == 60        \* seconds of the risk-control cooldown
MaxRetry == 5                \* retries after a transient error

\* the chapter accessor returns no page for "c0", one page for "c1" and for "c2",
\* MaxPages pages for "c3"
Chapters == {"c0", "c1", "c2", "c3"}
Tasks == 1..MaxTasks
NoTask == 0
Pages == 0..(MaxPages - 1)

Pending == "Pending"
Downloading == "Downloading"
Paused == "Paused"
Cancelled == "Cancelled"
Completed == "Completed"
Failed == "Failed"
DownloadTaskState == {Pending, Downloading, Paused, Cancelled, Completed, Failed}
ActiveStates == {Pending, Downloading, Paused}

VARIABLES
    download_tasks,         \* registry: chapter id -> task instance (NoTask: no entry)
    chapter_of,             \* task instance -> its chapter id ("" before creation)
    state_sender,           \* task instance -> value of its watch channel
    downloaded_img_count,   \* task instance -> counter
    total_img_count,        \* task instance -> counter
    chapter_sem,            \* available permits of chapter_sem
    img_sem,                \* available permits of img_sem
    drv,                    \* task instance -> control state of process()
    drv_chg,                \* task instance -> the driver's receiver has an unseen change
    img,                    \* task instance -> page -> control state of DownloadImgTask::process()
    img_chg,                \* task instance -> page -> the image task's receiver has an unseen change
    temp_download_dir,      \* chapter id -> staging directory on disk
    chapter_download_dir,   \* chapter id -> final directory on disk
    config,                 \* the configuration read by DownloadManager::new
    renamed,                \* the task instances whose rename to the final directory succeeded
    calls,                  \* number of calls made by the caller
    ret,                    \* the last call, its inputs and what it returned
    byte_per_sec,           \* the byte counter shared by the image tasks and the speed loop
    meter                   \* bytes added so far, bytes taken by the swaps, speeds emitted

vars == <<download_tasks, chapter_of, state_sender, downloaded_img_count, total_img_count,
          chapter_sem, img_sem, drv, drv_chg, img, img_chg, temp_download_dir,
          chapter_download_dir, config, renamed, calls, ret, byte_per_sec, meter>>

taskVars == <<chapter_of, state_sender, downloaded_img_count, total_img_count>>
fsVars == <<temp_download_dir, chapter_download_dir, renamed>>
callVars == <<download_tasks, config, calls, ret>>
meterVars == <<byte_per_sec, meter>>

\* ------------------------------------------------------------ the disk
RECURSIVE Digits(_)
Digits(n) == IF n < 10 THEN <<n>> ELSE Digits(n \div 10) \o <<n % 10>>

\* format!("{:03}", n): at least three digits, zero-padded on the left
Pad3(n) ==
    LET d == Digits(n)
    IN  IF Len(d) >= 3 THEN d ELSE [k \in 1..(3 - Len(d)) |-> 0] \o d

\* download_format.extension() under the default configuration (DownloadFormat::Webp)
Extension == "webp"

\* mutant: the file is named after the index itself
PageFile_ZeroBased(index) == [name |-> Pad3(index), ext |-> Extension]

\* save_path of the page with index `index`: "{:03}.{extension}" of index + 1
PageFile(index) == [name |-> Pad3(index + 1), ext |-> Extension]

\* a download format other than the configured one
OtherExtension == "jpg"

\* the page with index `index` as staged under the other format
OtherPageFile(index) == [PageFile(index) EXCEPT !.ext = OtherExtension]

\* the files an earlier run can have left in a staging directory: the first page
\* under the configured format, the first and the second under another one
StagedBefore == {PageFile(0), OtherPageFile(0), OtherPageFile(1)}

\* "章节元数据.json"
MetaFile == [name |-> <<>>, ext |-> "json"]

NoDir == [ex |-> FALSE, files |-> {}]

\* config.chapter_download_interval_sec
chapter_download_interval_sec == MaxIntervalSec

\* the number of pages the chapter accessor returns for a chapter
ChapterSize(c) == CASE c = "c0" -> 0 [] c = "c3" -> MaxPages [] OTHER -> 1

\* the chapters of one page
SinglePageChapters == {c \in Chapters : ChapterSize(c) = 1}

PagesOf(t) == 0..(ChapterSize(chapter_of[t]) - 1)

\* ------------------------------------------------- control-state values
\* retry_count and i are the locals of get_chapter_with_retry; ev lists the retry_after
\* of the DownloadControlRiskEvent emitted since the last response, fails and risks
\* count the transient and the risk-control responses the task has received; rem is
\* remaining_sec of sleep_between_chapter and sleeping lists the remaining_sec of the
\* DownloadSleepingEvent emitted; before is the final directory of the chapter as it
\* was when the task was created
NoDrv == [pc |-> "none", isDl |-> FALSE, isPend |-> FALSE, permit |-> FALSE,
          b |-> "start", rem |-> 0, retry_count |-> 0, i |-> 0, ev |-> <<>>,
          fails |-> 0, risks |-> 0, sleeping |-> <<>>, before |-> NoDir]
\* req: the image task has called get_img_data_and_format
NoImg == [pc |-> "none", isDl |-> FALSE, permit |-> FALSE, b |-> "start",
          aborted |-> FALSE, req |-> FALSE]

\* positions of download_chapter inside a poll (between two suspension points)
MidBody == {"mktemp", "clean", "check", "rmfinal", "rename", "meta"}

DrvHasReceiver(t) == drv[t].pc \in {"loop", "loop2", "select", "send", "exit"}
ImgHasReceiver(t, p) == img[t][p].pc \in {"loop", "select"}

\* watch::Sender::receiver_count
ReceiverCount(t) ==
    (IF DrvHasReceiver(t) THEN 1 ELSE 0) + Cardinality({p \in Pages : ImgHasReceiver(t, p)})

InitWith(staging) ==
    /\ download_tasks = [c \in Chapters |-> NoTask]
    /\ chapter_of = [t \in Tasks |-> ""]
    /\ state_sender = [t \in Tasks |-> Pending]
    /\ downloaded_img_count = [t \in Tasks |-> 0]
    /\ total_img_count = [t \in Tasks |-> 0]
    /\ config \in [chapter_concurrency : 1..MaxChapterConcurrency,
                    img_concurrency : 1..MaxImgConcurrency]
    /\ chapter_sem = config.chapter_concurrency
    /\ img_sem = config.img_concurrency
    /\ renamed = {}
    /\ drv = [t \in Tasks |-> NoDrv]
    /\ drv_chg = [t \in Tasks |-> FALSE]
    /\ img = [t \in Tasks |-> [p \in Pages |-> NoImg]]
    /\ img_chg = [t \in Tasks |-> [p \in Pages |-> FALSE]]
    /\ temp_download_dir = staging
    /\ chapter_download_dir = [c \in Chapters |-> NoDir]
    /\ calls = 0
    /\ ret = [op |-> "none", chapter |-> "", dirs_ok |-> TRUE, found |-> TRUE, ok |-> TRUE]
    /\ byte_per_sec = 0
    /\ meter = [added |-> 0, swapped |-> 0, emitted |-> 0]

\* the program starts on a disk without staging directories
Init == InitWith([c \in Chapters |-> NoDir])

\* ------------------------------------------------------ the state cell
\* watch::Sender::send: fails, leaving the value, when no receiver exists;
\* otherwise stores the value and marks every receiver changed
SendOk(t) == ReceiverCount(t) > 0

\* mutant: the receivers of the image tasks are not notified of the new value
Send_DriverOnly(t, s) ==
    IF SendOk(t)
    THEN /\ state_sender' = [state_sender EXCEPT ![t] = s]
         /\ drv_chg' = [drv_chg EXCEPT ![t] = DrvHasReceiver(t)]
         /\ UNCHANGED img_chg
    ELSE UNCHANGED <<state_sender, drv_chg, img_chg>>

Send(t, s) ==
    IF SendOk(t)
    THEN /\ state_sender' = [state_sender EXCEPT ![t] = s]
         /\ drv_chg' = [drv_chg EXCEPT ![t] = DrvHasReceiver(t)]
         /\ img_chg' = [img_chg EXCEPT ![t] = [p \in Pages |-> ImgHasReceiver(t, p)]]
    ELSE UNCHANGED <<state_sender, drv_chg, img_chg>>

\* DownloadTask::set_state: the failure of send is logged and otherwise ignored
set_state(t, s) == Send(t, s)

\* ------------------------------------------------------------ the caller
Returned(op, c, ok) == [op |-> op, chapter |-> c, dirs_ok |-> TRUE, found |-> TRUE, ok |-> ok]

\* mutant: a Paused entry no longer counts as active
DuplicateActive_NoPaused(c) ==
    /\ download_tasks[c] # NoTask
    /\ state_sender[download_tasks[c]] \in {Pending, Downloading}

\* mutant: a Failed entry is rejected as a duplicate too
DuplicateActive_AlsoFailed(c) ==
    /\ download_tasks[c] # NoTask
    /\ state_sender[download_tasks[c]] \in ActiveStates \cup {Failed}

\* create_download_task, lines 104-110: the entry exists and is still active
DuplicateActive(c) ==
    /\ download_tasks[c] # NoTask
    /\ state_sender[download_tasks[c]] \in ActiveStates

\* the instance a successful create makes: the first one not yet used
FreshTask == CHOOSE t \in Tasks : chapter_of[t] = "" /\ \A u \in Tasks : chapter_of[u] = "" => t <= u

\* DownloadTask::new followed by spawn(task.clone().process()): a channel holding
\* Pending whose only receiver is dropped at once, both counters 0, the driver spawned
NewTask(t, c) ==
    /\ chapter_of' = [chapter_of EXCEPT ![t] = c]
    /\ state_sender' = [state_sender EXCEPT ![t] = Pending]
    /\ downloaded_img_count' = [downloaded_img_count EXCEPT ![t] = 0]
    /\ total_img_count' = [total_img_count EXCEPT ![t] = 0]
    /\ drv' = [drv EXCEPT ![t] = [NoDrv EXCEPT !.pc = "spawned",
                                              !.before = chapter_download_dir[c]]]

\* the registry after DownloadTask::new has failed: the remove of line 111 has run
RegistryAfterFailedNew(c) == [download_tasks EXCEPT ![c] = NoTask]

\* dirs_ok: update_download_dir_fields_by_fmt succeeds; found: the comic holds the chapter
create_download_task(c, dirs_ok, found) ==
    /\ calls < MaxCalls
    /\ calls' = calls + 1
    /\ IF DuplicateActive(c)
       THEN /\ ret' = [Returned("create", c, FALSE) EXCEPT !.dirs_ok = dirs_ok, !.found = found]
            /\ UNCHANGED <<download_tasks, taskVars, drv>>
       ELSE IF ~(dirs_ok /\ found)
       THEN /\ download_tasks' = RegistryAfterFailedNew(c)
            /\ ret' = [Returned("create", c, FALSE) EXCEPT !.dirs_ok = dirs_ok, !.found = found]
            /\ UNCHANGED <<taskVars, drv>>
       ELSE /\ \E t \in Tasks : chapter_of[t] = ""
            /\ NewTask(FreshTask, c)
            /\ download_tasks' = [download_tasks EXCEPT ![c] = FreshTask]
            /\ ret' = Returned("create", c, TRUE)
    /\ UNCHANGED <<config, chapter_sem, img_sem, drv_chg, img, img_chg, fsVars, meterVars>>

\* mutant: a call for an unknown chapter id is ignored and reported as a success
SignalResult_AlwaysOk(c) == TRUE

\* tasks.get(chapter_uuid) of the three control calls: Err when it finds no entry
SignalResult(c) == download_tasks[c] # NoTask

\* pause_download_task / resume_download_task / cancel_download_task
Signal(op, c, s) ==
    /\ calls < MaxCalls
    /\ calls' = calls + 1
    /\ ret' = Returned(op, c, SignalResult(c))
    /\ IF download_tasks[c] = NoTask
       THEN UNCHANGED <<state_sender, drv_chg, img_chg>>
       ELSE set_state(download_tasks[c], s)
    /\ UNCHANGED <<download_tasks, config, chapter_of, downloaded_img_count, total_img_count,
                   chapter_sem, img_sem, drv, img, fsVars, meterVars>>

pause_download_task(c) == Signal("pause", c, Paused)
resume_download_task(c) == Signal("resume", c, Pending)
cancel_download_task(c) == Signal("cancel", c, Cancelled)

\* ------------------------------------------------- DownloadTask::process
\* the driver is first polled: subscribe() and mark_changed()
DrvSubscribe(t) ==
    /\ drv[t].pc = "spawned"
    /\ drv' = [drv EXCEPT ![t].pc = "loop"]
    /\ drv_chg' = [drv_chg EXCEPT ![t] = TRUE]
    /\ UNCHANGED <<callVars, meterVars, taskVars, chapter_sem, img_sem, img, img_chg, fsVars>>

\* top of the loop, line 202: state_is_downloading is read from the state cell
DrvLoop(t) ==
    /\ drv[t].pc = "loop"
    /\ drv' = [drv EXCEPT ![t].pc = "loop2",
                          ![t].isDl = (state_sender[t] = Downloading)]
    /\ UNCHANGED <<callVars, meterVars, taskVars, chapter_sem, img_sem, drv_chg, img, img_chg, fsVars>>

\* line 203: state_is_pending is read from the state cell, by a second borrow
DrvLoop2(t) ==
    /\ drv[t].pc = "loop2"
    /\ drv' = [drv EXCEPT ![t].pc = "select",
                          ![t].isPend = (state_sender[t] = Pending)]
    /\ UNCHANGED <<callVars, meterVars, taskVars, chapter_sem, img_sem, drv_chg, img, img_chg, fsVars>>

\* mutant: the permit is kept when Paused is observed
handle_state_change_KeepsPermit(t, d) ==
    CASE state_sender[t] = Paused -> [d EXCEPT !.pc = "loop"]
      [] state_sender[t] = Cancelled -> [d EXCEPT !.pc = "exit"]
      [] OTHER -> [d EXCEPT !.pc = "loop"]

\* handle_state_change on the driver's record d
handle_state_change(t, d) ==
    CASE state_sender[t] = Paused -> [d EXCEPT !.permit = FALSE, !.pc = "loop"]
      [] state_sender[t] = Cancelled -> [d EXCEPT !.pc = "exit"]
      [] OTHER -> [d EXCEPT !.pc = "loop"]

\* the changed() branch of the select: marks the change seen and handles it
DrvHandle(t, d) ==
    /\ drv' = [drv EXCEPT ![t] = handle_state_change(t, d)]
    /\ drv_chg' = [drv_chg EXCEPT ![t] = FALSE]
    /\ chapter_sem' = IF d.permit /\ ~handle_state_change(t, d).permit
                      THEN chapter_sem + 1 ELSE chapter_sem

DrvChanged(t) ==
    /\ drv[t].pc = "select"
    /\ drv[t].b \notin MidBody
    /\ drv_chg[t]
    /\ DrvHandle(t, drv[t])
    /\ UNCHANGED <<callVars, meterVars, taskVars, img_sem, img, img_chg, fsVars>>

\* mutant: the permit is taken without waiting for one to be available
ChapterPermitReady_NoWait(t) == TRUE

\* lines 492-500: a permit held is reused, otherwise chapter_sem.acquire() completes
\* once the semaphore has a permit
ChapterPermitReady(t) == drv[t].permit \/ chapter_sem > 0

\* acquire_chapter_permit up to its check of the state (lines 492-520): the permit
\* held is reused, otherwise one is taken from chapter_sem; then the state is read
DrvAcquire(t) ==
    /\ drv[t].pc = "select"
    /\ drv[t].isPend
    /\ drv[t].b \notin MidBody
    /\ ChapterPermitReady(t)
    /\ chapter_sem' = IF drv[t].permit THEN chapter_sem ELSE chapter_sem - 1
    /\ drv' = [drv EXCEPT ![t].permit = TRUE,
                          ![t].pc = IF state_sender[t] # Pending THEN "loop" ELSE "send"]
    /\ UNCHANGED <<callVars, meterVars, taskVars, img_sem, drv_chg, img, img_chg, fsVars>>

\* acquire_chapter_permit, lines 522-532: send(Downloading)
DrvSendDownloading(t) ==
    /\ drv[t].pc = "send"
    /\ Send(t, Downloading)
    /\ drv' = [drv EXCEPT ![t].pc = "loop"]
    /\ UNCHANGED <<callVars, meterVars, chapter_of, downloaded_img_count, total_img_count,
                   chapter_sem, img_sem, img, fsVars>>

\* process() returns: the receiver and the permit are dropped, and dropping the
\* JoinSet inside download_chapter aborts every image task still alive
DrvExit(t) ==
    /\ drv[t].pc = "exit"
    /\ drv' = [drv EXCEPT ![t].pc = "done", ![t].permit = FALSE]
    /\ drv_chg' = [drv_chg EXCEPT ![t] = FALSE]
    /\ chapter_sem' = IF drv[t].permit THEN chapter_sem + 1 ELSE chapter_sem
    /\ img' = [img EXCEPT ![t] = [p \in Pages |->
                 IF img[t][p].pc \in {"none", "done"} THEN img[t][p]
                 ELSE [img[t][p] EXCEPT !.aborted = TRUE]]]
    /\ UNCHANGED <<callVars, meterVars, taskVars, img_sem, img_chg, fsVars>>

\* ------------------------------------------ DownloadTask::download_chapter
\* mutant: what the iteration read is not looked at
BodyOn_AnyState(t) == drv[t].pc = "select" /\ drv[t].permit

\* the body branch of the driver's select is polled only in an iteration that read
\* Downloading and holds a permit
BodyOn(t) == drv[t].pc = "select" /\ drv[t].isDl /\ drv[t].permit

\* mutant: the poll ends when the body suspends, a pending change is left for later
DrvPark_NoHandle(t, d) ==
    /\ drv' = [drv EXCEPT ![t] = d]
    /\ UNCHANGED <<drv_chg, chapter_sem>>

\* the body reaches a suspension point with the driver's record d: the same poll
\* goes on to the changed() branch, which handles a change that is pending
DrvPark(t, d) ==
    IF d.isPend
    THEN \* the iteration read Downloading and then Pending: the acquire branch is
         \* polled next and, the permit being held, runs to its check of the state
         /\ drv' = [drv EXCEPT ![t] = [d EXCEPT !.pc = IF state_sender[t] # Pending
                                                         THEN "loop" ELSE "send"]]
         /\ UNCHANGED <<drv_chg, chapter_sem>>
    ELSE IF drv_chg[t]
    THEN DrvHandle(t, d)
    ELSE /\ drv' = [drv EXCEPT ![t] = d]
         /\ UNCHANGED <<drv_chg, chapter_sem>>

\* set_state(Failed) and return: the body is complete, the loop breaks
BodyFail(t) ==
    /\ set_state(t, Failed)
    /\ drv' = [drv EXCEPT ![t].b = "done", ![t].pc = "exit"]
    /\ UNCHANGED <<callVars, meterVars, chapter_of, downloaded_img_count, total_img_count,
                   chapter_sem, img_sem, img, fsVars>>

\* set_state(Completed) at the end of the body
BodyComplete(t) ==
    /\ set_state(t, Completed)
    /\ drv' = [drv EXCEPT ![t].b = "done", ![t].pc = "exit", ![t].rem = 0]

\* lines 225-236: comic.save_metadata(), then the chapter request is sent
BodyStart(t, ok) ==
    /\ BodyOn(t)
    /\ drv[t].b = "start"
    /\ IF ok
       THEN /\ DrvPark(t, [drv[t] EXCEPT !.b = "w_fetch"])
            /\ UNCHANGED <<callVars, meterVars, taskVars, img_sem, img, img_chg, fsVars>>
       ELSE BodyFail(t)

\* mutant: the number of pages is not recorded
BodyFetched_NoCount(t, ok) ==
    /\ BodyOn(t)
    /\ drv[t].b = "w_fetch"
    /\ IF ok
       THEN /\ drv' = [drv EXCEPT ![t].b = "mktemp"]
            /\ UNCHANGED <<callVars, meterVars, taskVars, chapter_sem, img_sem, drv_chg, img, img_chg,
                           fsVars>>
       ELSE BodyFail(t)

\* mutant: a failure of the chapter accessor is followed by the wait before a retry
BodyFetched_FailureWaits(t, ok) ==
    /\ BodyOn(t)
    /\ drv[t].b = "w_fetch"
    /\ IF ok
       THEN /\ total_img_count' = [total_img_count EXCEPT
                                     ![t] = @ + ChapterSize(chapter_of[t])]
            /\ drv' = [drv EXCEPT ![t].b = "mktemp"]
            /\ UNCHANGED <<callVars, meterVars, chapter_of, state_sender, downloaded_img_count,
                           chapter_sem, img_sem, drv_chg, img, img_chg, fsVars>>
       ELSE /\ DrvPark(t, [drv[t] EXCEPT !.b = "w_retry"])
            /\ UNCHANGED <<callVars, meterVars, taskVars, img_sem, img, img_chg, fsVars>>

\* lines 236-242: the chapter accessor answers; on success total_img_count is recorded
BodyFetched(t, ok) ==
    /\ BodyOn(t)
    /\ drv[t].b = "w_fetch"
    /\ IF ok
       THEN /\ total_img_count' = [total_img_count EXCEPT
                                     ![t] = @ + ChapterSize(chapter_of[t])]
            /\ drv' = [drv EXCEPT ![t].b = "mktemp"]
            /\ UNCHANGED <<callVars, meterVars, chapter_of, state_sender, downloaded_img_count,
                           chapter_sem, img_sem, drv_chg, img, img_chg, fsVars>>
       ELSE BodyFail(t)

\* mutant: the event carries the seconds elapsed
RetryAfter_Elapsed(i) == i

\* retry_after of the event emitted in iteration i of the cooldown (line 394)
RetryAfter(i) == RETRY_WAIT_TIME - i

\* mutant: one more retry is allowed
MayRetry_OneMore(retry_count) == retry_count <= MaxRetry

\* line 404: another attempt is made
MayRetry(retry_count) == retry_count < MaxRetry

\* copy_client.get_chapter answers (line 386) with r:
\*   "Ok", "Anyhow": get_chapter_with_retry returns, download_chapter goes on or fails;
\*   "RiskControl": the cooldown starts, its first event is emitted, the body sleeps;
\*   "Other": the randomized wait of 1000-4999 ms starts
GetChapter(t, r) ==
    /\ BodyOn(t)
    /\ drv[t].b = "w_fetch"
    /\ CASE r = "Ok" -> BodyFetched(t, TRUE)
         [] r = "Anyhow" -> BodyFetched(t, FALSE)
         [] r = "RiskControl" ->
              /\ drv[t].risks < MaxRisk
              /\ DrvPark(t, [drv[t] EXCEPT !.b = "w_cool", !.i = 1, !.ev = <<RetryAfter(1)>>,
                                            !.risks = @ + 1])
              /\ UNCHANGED <<callVars, meterVars, taskVars, img_sem, img, img_chg, fsVars>>
         [] OTHER ->
              /\ DrvPark(t, [drv[t] EXCEPT !.b = "w_retry", !.fails = @ + 1])
              /\ UNCHANGED <<callVars, meterVars, taskVars, img_sem, img, img_chg, fsVars>>

\* mutant: the end of the cooldown ends the protocol with an error
CoolTick_GivesUp(t) ==
    /\ BodyOn(t)
    /\ drv[t].b = "w_cool"
    /\ IF drv[t].i < RETRY_WAIT_TIME
       THEN /\ DrvPark(t, [drv[t] EXCEPT !.i = @ + 1, !.ev = Append(@, RetryAfter(drv[t].i + 1))])
            /\ UNCHANGED <<callVars, meterVars, taskVars, img_sem, img, img_chg, fsVars>>
       ELSE BodyFail(t)

\* lines 391-398: one second of the cooldown has passed; the next event is emitted,
\* or after the last iteration the loop of line 385 calls get_chapter again
CoolTick(t) ==
    /\ BodyOn(t)
    /\ drv[t].b = "w_cool"
    /\ IF drv[t].i < RETRY_WAIT_TIME
       THEN DrvPark(t, [drv[t] EXCEPT !.i = @ + 1, !.ev = Append(@, RetryAfter(drv[t].i + 1))])
       ELSE DrvPark(t, [drv[t] EXCEPT !.b = "w_fetch", !.i = 0])
    /\ UNCHANGED <<callVars, meterVars, taskVars, img_sem, img, img_chg, fsVars>>

\* lines 403-408: the randomized wait is over; another attempt, or the error is returned
RetryWake(t) ==
    /\ BodyOn(t)
    /\ drv[t].b = "w_retry"
    /\ IF MayRetry(drv[t].retry_count)
       THEN /\ DrvPark(t, [drv[t] EXCEPT !.b = "w_fetch", !.retry_count = @ + 1])
            /\ UNCHANGED <<callVars, meterVars, taskVars, img_sem, img, img_chg, fsVars>>
       ELSE BodyFail(t)

\* create_temp_download_dir: create_dir_all keeps what the directory holds
BodyMkTemp(t, ok) ==
    /\ BodyOn(t)
    /\ drv[t].b = "mktemp"
    /\ IF ok
       THEN /\ temp_download_dir' = [temp_download_dir EXCEPT ![chapter_of[t]].ex = TRUE]
            /\ drv' = [drv EXCEPT ![t].b = "clean"]
            /\ UNCHANGED <<callVars, meterVars, taskVars, chapter_sem, img_sem, drv_chg, img, img_chg,
                           chapter_download_dir, renamed>>
       ELSE BodyFail(t)

\* mutant: every file of the staging directory is removed
CleanedDir_Empties(dir, stuck) == IF dir.ex THEN [dir EXCEPT !.files = {}] ELSE dir

\* mutant: nothing is removed
CleanedDir_KeepsAll(dir, stuck) == dir

\* the files clean_temp_download_dir tries to remove: those whose extension is not the
\* configured one
Mismatched(dir) == {f \in dir.files : f.ext # Extension}

\* clean_temp_download_dir: every file whose extension is not the configured one is
\* removed, but for the files of stuck, whose remove_file fails (the error is only
\* logged); a failing read_dir leaves them all
CleanedDir(dir, stuck) ==
    IF dir.ex
    THEN [dir EXCEPT !.files = {f \in dir.files : f.ext = Extension \/ f \in stuck}]
    ELSE dir

\* lines 248-258: the staging directory is cleaned, one image task is spawned per
\* page, and join_all is polled for the first time
BodyCleanSpawn(t, stuck) ==
    /\ BodyOn(t)
    /\ drv[t].b = "clean"
    /\ stuck \subseteq Mismatched(temp_download_dir[chapter_of[t]])
    /\ temp_download_dir' = [temp_download_dir EXCEPT
                               ![chapter_of[t]] = CleanedDir(@, stuck)]
    /\ img' = [img EXCEPT ![t] = [p \in Pages |->
                 IF p \in PagesOf(t) THEN [NoImg EXCEPT !.pc = "spawned"] ELSE NoImg]]
    /\ IF PagesOf(t) = {}
       THEN /\ drv' = [drv EXCEPT ![t].b = "check"]
            /\ UNCHANGED <<drv_chg, chapter_sem>>
       ELSE DrvPark(t, [drv[t] EXCEPT !.b = "w_join"])
    /\ UNCHANGED <<callVars, meterVars, taskVars, img_sem, img_chg, chapter_download_dir, renamed>>

\* mutant: the join is over as soon as one image task has ended
BodyJoined_First(t) ==
    /\ BodyOn(t)
    /\ drv[t].b = "w_join"
    /\ \E p \in PagesOf(t) : img[t][p].pc = "done"
    /\ drv' = [drv EXCEPT ![t].b = "check"]
    /\ UNCHANGED <<callVars, meterVars, taskVars, chapter_sem, img_sem, drv_chg, img, img_chg, fsVars>>

\* join_all is ready: every image task has ended
BodyJoined(t) ==
    /\ BodyOn(t)
    /\ drv[t].b = "w_join"
    /\ \A p \in PagesOf(t) : img[t][p].pc = "done"
    /\ drv' = [drv EXCEPT ![t].b = "check"]
    /\ UNCHANGED <<callVars, meterVars, taskVars, chapter_sem, img_sem, drv_chg, img, img_chg, fsVars>>

\* mutant: the comparison accepts a chapter with pages missing
AllDownloaded_AtMost(t) == downloaded_img_count[t] <= total_img_count[t]

\* lines 261-263: the chapter is complete when the two counters are equal
AllDownloaded(t) == downloaded_img_count[t] = total_img_count[t]

BodyCheck(t) ==
    /\ BodyOn(t)
    /\ drv[t].b = "check"
    /\ IF AllDownloaded(t)
       THEN /\ drv' = [drv EXCEPT ![t].b = "rmfinal"]
            /\ UNCHANGED <<callVars, meterVars, taskVars, chapter_sem, img_sem, drv_chg, img, img_chg,
                           fsVars>>
       ELSE BodyFail(t)

\* rename_temp_download_dir, lines 467-470: an existing final directory is removed
BodyRmFinal(t, ok) ==
    /\ BodyOn(t)
    /\ drv[t].b = "rmfinal"
    /\ IF ~chapter_download_dir[chapter_of[t]].ex \/ ok
       THEN /\ chapter_download_dir' = [chapter_download_dir EXCEPT ![chapter_of[t]] = NoDir]
            /\ drv' = [drv EXCEPT ![t].b = "rename"]
            /\ UNCHANGED <<callVars, meterVars, taskVars, chapter_sem, img_sem, drv_chg, img, img_chg,
                           temp_download_dir, renamed>>
       ELSE BodyFail(t)

\* std::fs::rename of a directory: the source must exist and the target must not
\* hold anything
RenamePossible(c) ==
    /\ temp_download_dir[c].ex
    /\ ~chapter_download_dir[c].ex \/ chapter_download_dir[c].files = {}

\* rename_temp_download_dir, lines 472-476
BodyRename(t, ok) ==
    /\ BodyOn(t)
    /\ drv[t].b = "rename"
    /\ IF ok /\ RenamePossible(chapter_of[t])
       THEN /\ chapter_download_dir' = [chapter_download_dir EXCEPT
                                          ![chapter_of[t]] = temp_download_dir[chapter_of[t]]]
            /\ temp_download_dir' = [temp_download_dir EXCEPT ![chapter_of[t]] = NoDir]
            /\ renamed' = renamed \cup {t}
            /\ drv' = [drv EXCEPT ![t].b = "meta"]
            /\ UNCHANGED <<callVars, meterVars, taskVars, chapter_sem, img_sem, drv_chg, img, img_chg>>
       ELSE BodyFail(t)

\* ChapterInfo::save_metadata: create_dir_all of the final directory, then the
\* metadata file is written into it
MetadataSaved(dir) == [ex |-> TRUE, files |-> dir.files \cup {MetaFile}]

\* lines 287-297: the chapter metadata is saved (a failure is only logged), then
\* sleep_between_chapter starts; with no interval the body ends at once
BodySaveMeta(t, ok) ==
    /\ BodyOn(t)
    /\ drv[t].b = "meta"
    /\ chapter_download_dir' = [chapter_download_dir EXCEPT
                                  ![chapter_of[t]] = IF ok THEN MetadataSaved(@) ELSE @]
    /\ IF chapter_download_interval_sec > 0
       THEN /\ DrvPark(t, [drv[t] EXCEPT !.b = "w_sleep",
                                         !.rem = chapter_download_interval_sec,
                                         !.sleeping = <<chapter_download_interval_sec>>])
            /\ UNCHANGED <<state_sender, img_chg>>
       ELSE /\ BodyComplete(t)
            /\ UNCHANGED chapter_sem
    /\ UNCHANGED <<callVars, meterVars, chapter_of, downloaded_img_count, total_img_count, img_sem, img,
                   temp_download_dir, renamed>>

\* mutant: the countdown is cut short, the first second over ends the delay
BodySleepTick_CutShort(t) ==
    /\ BodyOn(t)
    /\ drv[t].b = "w_sleep"
    /\ BodyComplete(t)
    /\ UNCHANGED <<callVars, meterVars, chapter_of, downloaded_img_count, total_img_count, img_sem, img,
                   fsVars, chapter_sem>>

\* sleep_between_chapter: one second has passed
BodySleepTick(t) ==
    /\ BodyOn(t)
    /\ drv[t].b = "w_sleep"
    /\ IF drv[t].rem > 1
       THEN /\ DrvPark(t, [drv[t] EXCEPT !.rem = @ - 1,
                                         !.sleeping = Append(@, drv[t].rem - 1)])
            /\ UNCHANGED <<state_sender, img_chg>>
       ELSE /\ BodyComplete(t)
            /\ UNCHANGED chapter_sem
    /\ UNCHANGED <<callVars, meterVars, chapter_of, downloaded_img_count, total_img_count, img_sem, img,
                   fsVars>>

\* ---------------------------------------------- DownloadImgTask::process
\* the image task's record becomes r; a permit it no longer holds goes back to img_sem
ImgSet(t, p, r) ==
    /\ img' = [img EXCEPT ![t][p] = r]
    /\ img_sem' = IF img[t][p].permit /\ ~r.permit THEN img_sem + 1 ELSE img_sem

\* mutant: the permit outlives the image task
ImgEnded_KeepsPermit(r) == [r EXCEPT !.pc = "done", !.b = "done"]

\* process() has returned: its receiver and its permit are dropped
ImgEnded(r) == [r EXCEPT !.pc = "done", !.b = "done", !.permit = FALSE]

\* DownloadImgTask::handle_state_change on the record r
img_handle_state_change(t, r) ==
    CASE state_sender[t] = Paused -> [r EXCEPT !.permit = FALSE, !.pc = "loop"]
      [] state_sender[t] = Cancelled -> ImgEnded(r)
      [] OTHER -> [r EXCEPT !.pc = "loop"]

ImgHandle(t, p, r) ==
    /\ ImgSet(t, p, img_handle_state_change(t, r))
    /\ img_chg' = [img_chg EXCEPT ![t][p] = FALSE]

\* the body reaches a suspension point: a pending change is handled in the same poll
ImgPark(t, p, r) ==
    IF img_chg[t][p]
    THEN ImgHandle(t, p, r)
    ELSE /\ ImgSet(t, p, r)
         /\ UNCHANGED img_chg

ImgLive(t, p) == img[t][p].pc \in {"loop", "select"} /\ ~img[t][p].aborted

\* first poll: subscribe() and mark_changed()
ImgSubscribe(t, p) ==
    /\ img[t][p].pc = "spawned"
    /\ ~img[t][p].aborted
    /\ img' = [img EXCEPT ![t][p].pc = "loop"]
    /\ img_chg' = [img_chg EXCEPT ![t][p] = TRUE]
    /\ UNCHANGED <<callVars, meterVars, taskVars, chapter_sem, img_sem, drv, drv_chg, fsVars>>

ImgLoop(t, p) ==
    /\ img[t][p].pc = "loop"
    /\ ~img[t][p].aborted
    /\ img' = [img EXCEPT ![t][p].pc = "select",
                          ![t][p].isDl = (state_sender[t] = Downloading)]
    /\ UNCHANGED <<callVars, meterVars, taskVars, chapter_sem, img_sem, drv, drv_chg, img_chg, fsVars>>

ImgChanged(t, p) ==
    /\ img[t][p].pc = "select"
    /\ ~img[t][p].aborted
    /\ img_chg[t][p]
    /\ ImgHandle(t, p, img[t][p])
    /\ UNCHANGED <<callVars, meterVars, taskVars, chapter_sem, drv, drv_chg, fsVars>>

\* mutant: the permit is taken without waiting for one to be available
ImgPermitReady_NoWait == TRUE

\* lines 747-751: img_sem.acquire() completes once the semaphore has a permit
ImgPermitReady == img_sem > 0

\* acquire_img_permit: polled in an iteration that read Downloading and holds no permit
ImgAcquire(t, p) ==
    /\ img[t][p].pc = "select"
    /\ ~img[t][p].aborted
    /\ img[t][p].isDl
    /\ ~img[t][p].permit
    /\ ImgPermitReady
    /\ img_sem' = img_sem - 1
    /\ img' = [img EXCEPT ![t][p].permit = TRUE, ![t][p].pc = "loop"]
    /\ UNCHANGED <<callVars, meterVars, taskVars, chapter_sem, drv, drv_chg, img_chg, fsVars>>

\* mutant: what the iteration read is not looked at
ImgOn_AnyState(t, p) ==
    /\ img[t][p].pc = "select"
    /\ ~img[t][p].aborted
    /\ img[t][p].permit

\* the body branch of the image task's select
ImgOn(t, p) ==
    /\ img[t][p].pc = "select"
    /\ ~img[t][p].aborted
    /\ img[t][p].isDl
    /\ img[t][p].permit

\* mutant: the staging directory is not looked at
PageStaged_Never(t, p) == FALSE

\* save_path.exists()
PageStaged(t, p) ==
    /\ temp_download_dir[chapter_of[t]].ex
    /\ PageFile(p) \in temp_download_dir[chapter_of[t]].files

\* download_img, lines 668-688: a page already staged is counted and the body ends;
\* otherwise the image request is sent
ImgStart(t, p) ==
    /\ ImgOn(t, p)
    /\ img[t][p].b = "start"
    /\ IF PageStaged(t, p)
       THEN /\ downloaded_img_count' = [downloaded_img_count EXCEPT ![t] = @ + 1]
            /\ ImgSet(t, p, ImgEnded(img[t][p]))
            /\ UNCHANGED img_chg
       ELSE /\ ImgPark(t, p, [img[t][p] EXCEPT !.b = "w_fetch", !.req = TRUE])
            /\ UNCHANGED downloaded_img_count
    /\ UNCHANGED <<callVars, meterVars, chapter_of, state_sender, total_img_count, chapter_sem, drv,
                   drv_chg, fsVars>>

\* std::fs::write(save_path): the directory must exist
SavePossible(c) == temp_download_dir[c].ex

\* img_data.len() of the image of page p, in bytes: the pages differ in size
img_data_len(p) == 4000 + 2000 * ((p + 1) % 2)

\* lines 718-720: byte_per_sec.fetch_add(img_data_len)
BytesAdded(n) ==
    /\ byte_per_sec' = byte_per_sec + n
    /\ meter' = [meter EXCEPT !.added = @ + n]

\* mutant: the speed loop reads the counter and leaves it as it is
EmitSpeed_NoReset ==
    /\ meter' = [meter EXCEPT !.swapped = @ + byte_per_sec]
    /\ UNCHANGED <<byte_per_sec, callVars, taskVars, chapter_sem, img_sem, drv, drv_chg, img,
                   img_chg, fsVars>>

\* format!("{mega_byte_per_sec:.2} MB/s") of b bytes, in hundredths of a MB/s: the
\* quotient b / 1024 / 1024 rounded to two decimals
SpeedOf(b) == (200 * b + 1048576) \div 2097152

\* emit_download_speed_loop, one tick of the interval: byte_per_sec.swap(0), then the
\* DownloadSpeedEvent with the formatted speed is emitted
EmitSpeed ==
    /\ byte_per_sec' = 0
    /\ meter' = [meter EXCEPT !.swapped = @ + byte_per_sec,
                              !.emitted = @ + SpeedOf(byte_per_sec)]
    /\ UNCHANGED <<callVars, taskVars, chapter_sem, img_sem, drv, drv_chg, img, img_chg,
                   fsVars>>

\* mutant: after a failure the image request is sent again
ImgFetched_Retries(t, p, fetched, saved) ==
    /\ ImgOn(t, p)
    /\ img[t][p].b = "w_fetch"
    /\ IF fetched /\ saved /\ SavePossible(chapter_of[t])
       THEN /\ temp_download_dir' = [temp_download_dir EXCEPT
                                       ![chapter_of[t]].files = @ \cup {PageFile(p)}]
            /\ BytesAdded(img_data_len(p))
            /\ downloaded_img_count' = [downloaded_img_count EXCEPT ![t] = @ + 1]
            /\ ImgPark(t, p, [img[t][p] EXCEPT !.b = "w_sleep"])
       ELSE /\ ImgPark(t, p, [img[t][p] EXCEPT !.b = "start"])
            /\ UNCHANGED <<temp_download_dir, downloaded_img_count, meterVars>>
    /\ UNCHANGED <<callVars, chapter_of, state_sender, total_img_count, chapter_sem, drv,
                   drv_chg, chapter_download_dir, renamed>>

\* download_img, lines 688-730: the image request answers (fetched), save_img
\* writes the page (saved), the counter is incremented and the interval sleep starts
ImgFetched(t, p, fetched, saved) ==
    /\ ImgOn(t, p)
    /\ img[t][p].b = "w_fetch"
    /\ IF fetched /\ saved /\ SavePossible(chapter_of[t])
       THEN /\ temp_download_dir' = [temp_download_dir EXCEPT
                                       ![chapter_of[t]].files = @ \cup {PageFile(p)}]
            /\ BytesAdded(img_data_len(p))
            /\ downloaded_img_count' = [downloaded_img_count EXCEPT ![t] = @ + 1]
            /\ ImgPark(t, p, [img[t][p] EXCEPT !.b = "w_sleep"])
       ELSE /\ ImgSet(t, p, ImgEnded(img[t][p]))
            /\ UNCHANGED <<temp_download_dir, downloaded_img_count, img_chg, meterVars>>
    /\ UNCHANGED <<callVars, chapter_of, state_sender, total_img_count, chapter_sem, drv,
                   drv_chg, chapter_download_dir, renamed>>

\* the interval sleep is over: the body, and with it the image task, ends
ImgSlept(t, p) ==
    /\ ImgOn(t, p)
    /\ img[t][p].b = "w_sleep"
    /\ ImgSet(t, p, ImgEnded(img[t][p]))
    /\ UNCHANGED <<callVars, meterVars, taskVars, chapter_sem, drv, drv_chg, img_chg, fsVars>>

\* an aborted image task is dropped at its suspension point
ImgAborted(t, p) ==
    /\ img[t][p].aborted
    /\ img[t][p].pc \notin {"none", "done"}
    /\ ImgSet(t, p, ImgEnded(img[t][p]))
    /\ img_chg' = [img_chg EXCEPT ![t][p] = FALSE]
    /\ UNCHANGED <<callVars, meterVars, taskVars, chapter_sem, drv, drv_chg, fsVars>>

\* ------------------------------------------------------------------ Next
\* the chapter ids are interchangeable: the caller's first call names "c1"
FirstCallNames(c) == calls = 0 => c = "c1"

\* the caller's calls name chapters of one page
Caller ==
    \E c \in {x \in SinglePageChapters : FirstCallNames(x)} :
        \/ \E dirs_ok \in BOOLEAN, found \in BOOLEAN : create_download_task(c, dirs_ok, found)
        \/ pause_download_task(c)
        \/ resume_download_task(c)
        \/ cancel_download_task(c)

Driver ==
    \E t \in Tasks :
        \/ DrvSubscribe(t)
        \/ DrvLoop(t)
        \/ DrvLoop2(t)
        \/ DrvChanged(t)
        \/ DrvAcquire(t)
        \/ DrvSendDownloading(t)
        \/ DrvExit(t)

Body ==
    \E t \in Tasks :
        \/ \E ok \in BOOLEAN : BodyStart(t, ok)
        \/ \E ok \in BOOLEAN : BodyFetched(t, ok)
        \/ \E ok \in BOOLEAN : BodyMkTemp(t, ok)
        \/ \E stuck \in SUBSET StagedBefore : BodyCleanSpawn(t, stuck)
        \/ BodyJoined(t)
        \/ BodyCheck(t)
        \/ \E ok \in BOOLEAN : BodyRmFinal(t, ok)
        \/ \E ok \in BOOLEAN : BodyRename(t, ok)
        \/ \E ok \in BOOLEAN : BodySaveMeta(t, ok)
        \/ BodySleepTick(t)

Image ==
    \E t \in Tasks, p \in Pages :
        \/ ImgSubscribe(t, p)
        \/ ImgLoop(t, p)
        \/ ImgChanged(t, p)
        \/ ImgAcquire(t, p)
        \/ ImgStart(t, p)
        \/ \E fetched \in BOOLEAN, saved \in BOOLEAN : ImgFetched(t, p, fetched, saved)
        \/ ImgSlept(t, p)
        \/ ImgAborted(t, p)

Next == Caller \/ Driver \/ Body \/ Image

Spec == Init /\ [][Next]_vars

\* ------------------------------------------------------------- fairness
\* every step of the driver of t, its body included
DriverOf(t) ==
    \/ DrvSubscribe(t)
    \/ DrvLoop(t)
    \/ DrvLoop2(t)
    \/ DrvChanged(t)
    \/ DrvAcquire(t)
    \/ DrvSendDownloading(t)
    \/ DrvExit(t)
    \/ \E ok \in BOOLEAN : BodyStart(t, ok)
    \/ \E ok \in BOOLEAN : BodyFetched(t, ok)
    \/ \E ok \in BOOLEAN : BodyMkTemp(t, ok)
    \/ \E stuck \in SUBSET StagedBefore : BodyCleanSpawn(t, stuck)
    \/ BodyJoined(t)
    \/ BodyCheck(t)
    \/ \E ok \in BOOLEAN : BodyRmFinal(t, ok)
    \/ \E ok \in BOOLEAN : BodyRename(t, ok)
    \/ \E ok \in BOOLEAN : BodySaveMeta(t, ok)
    \/ BodySleepTick(t)

\* every step of the image task of page p of t
ImageOf(t, p) ==
    \/ ImgSubscribe(t, p)
    \/ ImgLoop(t, p)
    \/ ImgChanged(t, p)
    \/ ImgAcquire(t, p)
    \/ ImgStart(t, p)
    \/ \E fetched \in BOOLEAN, saved \in BOOLEAN : ImgFetched(t, p, fetched, saved)
    \/ ImgSlept(t, p)
    \/ ImgAborted(t, p)

\* the tokio runtime polls every task that has been woken, the semaphores are fair,
\* every request is answered and every timer fires; the caller is under no obligation
Fairness ==
    /\ \A t \in Tasks : WF_vars(DriverOf(t))
    /\ \A t \in Tasks, p \in Pages : WF_vars(ImageOf(t, p))

FairSpec == Init /\ [][Next]_vars /\ Fairness

\* chapter_concurrency 1: the chapters are downloaded one at a time
InitSerial == Init /\ config.chapter_concurrency = 1

FairSpecSerial == InitSerial /\ [][Next]_vars /\ Fairness

\* --------------------------------------- one download, the fetch protocol in full
\* the caller creates one task and then only signals it
CallerOne ==
    \/ calls = 0 /\ create_download_task("c1", TRUE, TRUE)
    \/ calls > 0 /\ pause_download_task("c1")
    \/ calls > 0 /\ resume_download_task("c1")
    \/ calls > 0 /\ cancel_download_task("c1")

BodyRetry ==
    \E t \in Tasks :
        \/ \E ok \in BOOLEAN : BodyStart(t, ok)
        \/ \E r \in {"Ok", "Anyhow", "RiskControl", "Other"} : GetChapter(t, r)
        \/ CoolTick(t)
        \/ RetryWake(t)
        \/ \E ok \in BOOLEAN : BodyMkTemp(t, ok)
        \/ \E stuck \in SUBSET StagedBefore : BodyCleanSpawn(t, stuck)
        \/ BodyJoined(t)
        \/ BodyCheck(t)
        \/ \E ok \in BOOLEAN : BodyRmFinal(t, ok)
        \/ \E ok \in BOOLEAN : BodyRename(t, ok)
        \/ \E ok \in BOOLEAN : BodySaveMeta(t, ok)
        \/ BodySleepTick(t)

NextRetry == CallerOne \/ Driver \/ BodyRetry \/ Image

SpecRetry == Init /\ [][NextRetry]_vars

\* -------------------------------------------- one download of a chapter of MaxPages pages
CallerPages ==
    \/ calls = 0 /\ create_download_task("c3", TRUE, TRUE)
    \/ calls > 0 /\ pause_download_task("c3")
    \/ calls > 0 /\ resume_download_task("c3")
    \/ calls > 0 /\ cancel_download_task("c3")

NextPages == CallerPages \/ Driver \/ Body \/ Image

SpecPages == Init /\ [][NextPages]_vars

\* ------------------- an earlier run has left files in the staging directory of the
\* chapter of several pages, its first page under another format among them
InitStaged ==
    \E files \in {fs \in SUBSET StagedBefore : OtherPageFile(0) \in fs} :
        InitWith([c \in Chapters |-> IF c = "c3" THEN [ex |-> TRUE, files |-> files]
                                     ELSE NoDir])

SpecStaged == InitStaged /\ [][NextPages]_vars

\* ------------ two chapters share one chapter permit and one image permit; the caller
\* has created their tasks, and calls counts the calls it makes from then on
InitTwoTasks ==
    /\ download_tasks = [c \in Chapters |-> CASE c = "c1" -> 1 [] c = "c2" -> 2
                                                [] OTHER -> NoTask]
    /\ chapter_of = [t \in Tasks |-> CASE t = 1 -> "c1" [] t = 2 -> "c2" [] OTHER -> ""]
    /\ state_sender = [t \in Tasks |-> Pending]
    /\ downloaded_img_count = [t \in Tasks |-> 0]
    /\ total_img_count = [t \in Tasks |-> 0]
    /\ config = [chapter_concurrency |-> 1, img_concurrency |-> 1]
    /\ chapter_sem = config.chapter_concurrency
    /\ img_sem = config.img_concurrency
    /\ renamed = {}
    /\ drv = [t \in Tasks |-> IF t \in {1, 2} THEN [NoDrv EXCEPT !.pc = "spawned"] ELSE NoDrv]
    /\ drv_chg = [t \in Tasks |-> FALSE]
    /\ img = [t \in Tasks |-> [p \in Pages |-> NoImg]]
    /\ img_chg = [t \in Tasks |-> [p \in Pages |-> FALSE]]
    /\ temp_download_dir = [c \in Chapters |-> NoDir]
    /\ chapter_download_dir = [c \in Chapters |-> NoDir]
    /\ calls = 0
    /\ ret = Returned("create", "c2", TRUE)
    /\ byte_per_sec = 0
    /\ meter = [added |-> 0, swapped |-> 0, emitted |-> 0]

\* the caller pauses and resumes the first of them, and never cancels
CallerResumes ==
    \/ pause_download_task("c1")
    \/ resume_download_task("c1")

\* ---------------------------- the throughput meter: the speed loop runs beside the
\* download of a chapter of several pages
\* the caller creates and cancels tasks of the chapter of several pages, so that a
\* later task finds pages staged by an earlier one
CallerMeter ==
    \/ create_download_task("c3", TRUE, TRUE)
    \/ cancel_download_task("c3")

NextMeter == CallerMeter \/ Driver \/ Body \/ Image \/ EmitSpeed

SpecMeter == Init /\ [][NextMeter]_vars

\* ------------------------- downloads left alone: no signal, every operation succeeds
\* the caller only creates tasks
CallerHappy ==
    \E c \in {x \in Chapters : FirstCallNames(x)} : create_download_task(c, TRUE, TRUE)

\* every request and every directory operation succeeds; saving the chapter metadata,
\* whose failure is only logged, may fail
BodyHappy ==
    \E t \in Tasks :
        \/ BodyStart(t, TRUE)
        \/ BodyFetched(t, TRUE)
        \/ BodyMkTemp(t, TRUE)
        \/ BodyCleanSpawn(t, {})
        \/ BodyJoined(t)
        \/ BodyCheck(t)
        \/ BodyRmFinal(t, TRUE)
        \/ BodyRename(t, TRUE)
        \/ \E ok \in BOOLEAN : BodySaveMeta(t, ok)
        \/ BodySleepTick(t)

ImageHappy ==
    \E t \in Tasks, p \in Pages :
        \/ ImgSubscribe(t, p)
        \/ ImgLoop(t, p)
        \/ ImgChanged(t, p)
        \/ ImgAcquire(t, p)
        \/ ImgStart(t, p)
        \/ ImgFetched(t, p, TRUE, TRUE)
        \/ ImgSlept(t, p)

NextHappy == CallerHappy \/ Driver \/ BodyHappy \/ ImageHappy

SpecHappy == Init /\ [][NextHappy]_vars /\ Fairness

\* a chapter is downloaded again: the caller only creates tasks, for one chapter id,
\* which it can do again once the task before has ended; the requests and directory
\* operations of the body may fail, the images are fetched and saved
CallerAgain == \E dirs_ok \in BOOLEAN, found \in BOOLEAN : create_download_task("c1", dirs_ok, found)

NextAgain == CallerAgain \/ Driver \/ Body \/ ImageHappy

SpecAgain == Init /\ [][NextAgain]_vars

\* the two tasks are paused and resumed, every request and every directory operation
\* succeeds
NextResumes == CallerResumes \/ Driver \/ BodyHappy \/ ImageHappy

FairSpecResumes == InitTwoTasks /\ [][NextResumes]_vars /\ Fairness

\* ================================================================ claims
IsCall(op, c) == calls' = calls + 1 /\ ret'.op = op /\ ret'.chapter = c
IsSignal(c) == calls' = calls + 1 /\ ret'.op \in {"pause", "resume", "cancel"} /\ ret'.chapter = c
TerminalStates == {Completed, Failed, Cancelled}
SignalState(op) == CASE op = "pause" -> Paused [] op = "resume" -> Pending [] OTHER -> Cancelled
InstancesOf(c) == {t \in Tasks : chapter_of[t] = c}
PageSet(n) == {PageFile(k) : k \in 0..(n - 1)}
PageFilesIn(dir) == {f \in dir.files : f.ext = Extension}

\* C1: create_download_task for a chapter id whose registered task is Pending,
\* Downloading or Paused returns an error, starts no driver and leaves the registry
\* entry, every task's state and the counters as they were.
C1_DuplicateCreateRejected ==
    [][\A c \in Chapters :
         (/\ IsCall("create", c)
          /\ download_tasks[c] # NoTask
          /\ state_sender[download_tasks[c]] \in {Pending, Downloading, Paused})
         => (/\ ~ret'.ok
             /\ UNCHANGED <<download_tasks, chapter_of, state_sender, downloaded_img_count,
                            total_img_count, drv>>)]_vars

\* a create for a chapter whose registered task is Paused has returned an error
C1_Witness ==
    /\ ret.op = "create" /\ ~ret.ok /\ ret.dirs_ok /\ ret.found
    /\ download_tasks[ret.chapter] # NoTask
    /\ state_sender[download_tasks[ret.chapter]] = Paused

\* what a successful create over the old entry leaves: the registry maps c to an
\* instance that did not exist, Pending, both counters 0, and exactly its driver is new
CreatedAfresh(c) ==
    LET n == download_tasks'[c]
    IN  /\ ret'.ok
        /\ n # NoTask /\ n # download_tasks[c] /\ chapter_of[n] = "" /\ chapter_of'[n] = c
        /\ state_sender'[n] = Pending
        /\ downloaded_img_count'[n] = 0 /\ total_img_count'[n] = 0
        /\ drv[n].pc = "none" /\ drv'[n].pc = "spawned"
        /\ \A u \in Tasks \ {n} : drv'[u] = drv[u] /\ state_sender'[u] = state_sender[u]

\* C2 as stated: create_download_task for a chapter id whose registered task is
\* Completed, Failed or Cancelled, with the chapter present in the comic, succeeds
\* and registers a fresh Pending task with counters 0 and one new driver.
C2_Original ==
    [][\A c \in Chapters :
         (/\ IsCall("create", c) /\ ret'.found
          /\ download_tasks[c] # NoTask
          /\ state_sender[download_tasks[c]] \in TerminalStates)
         => CreatedAfresh(c)]_vars

\* C2 (amended): the same, provided the download directories of the comic resolve
\* (update_download_dir_fields_by_fmt succeeds).
C2_TerminalEntryReplaced ==
    [][\A c \in Chapters :
         (/\ IsCall("create", c) /\ ret'.found /\ ret'.dirs_ok
          /\ download_tasks[c] # NoTask
          /\ state_sender[download_tasks[c]] \in TerminalStates)
         => CreatedAfresh(c)]_vars

\* a create has just replaced a terminal task of the chapter by a fresh one
C2_Witness ==
    /\ ret.op = "create" /\ ret.ok
    /\ download_tasks[ret.chapter] # NoTask
    /\ drv[download_tasks[ret.chapter]].pc = "spawned"
    /\ \E u \in InstancesOf(ret.chapter) :
          u # download_tasks[ret.chapter] /\ state_sender[u] \in TerminalStates

\* C3: for each chapter id at most one task instance, registered or superseded, is
\* Pending, Downloading or Paused.
C3_AtMostOneActive ==
    \A c \in Chapters :
        Cardinality({t \in InstancesOf(c) : state_sender[t] \in ActiveStates}) <= 1

\* C4: pause, resume and cancel for a chapter id without a registry entry return an
\* error and change neither the registry nor the state of any task.
C4_UnknownIdRejected ==
    [][\A c \in Chapters :
         (IsSignal(c) /\ download_tasks[c] = NoTask)
         => (~ret'.ok /\ UNCHANGED <<download_tasks, state_sender>>)]_vars

\* a cancel for an unknown chapter id has failed while another chapter is downloading
C4_Witness ==
    /\ ret.op = "cancel" /\ ~ret.ok
    /\ download_tasks[ret.chapter] = NoTask
    /\ \E t \in Tasks : state_sender[t] = Downloading

\* C5: whenever pause, resume or cancel returns success, the state cell of the
\* registered task holds Paused, Pending or Cancelled right after the call.
C5_SignalTakesEffect ==
    [][\A c \in Chapters :
         (IsSignal(c) /\ ret'.ok)
         => state_sender'[download_tasks[c]] = SignalState(ret'.op)]_vars

\* C6: whenever the registered task of a chapter is Completed, the final directory
\* exists and holds exactly total_img_count page files, named 001.. with the
\* configured extension, and the staging directory does not exist.
C6_CompletedIsCommitted ==
    \A c \in Chapters :
        (download_tasks[c] # NoTask /\ state_sender[download_tasks[c]] = Completed)
        => (/\ chapter_download_dir[c].ex
            /\ PageFilesIn(chapter_download_dir[c]) = PageSet(total_img_count[download_tasks[c]])
            /\ ~temp_download_dir[c].ex)

\* C7: when the counters differ once every image task has ended, the task becomes
\* Failed and its body ends there, touching no directory; and a rename is only ever
\* performed by a task whose counters are equal.
C7_IncompleteNeverCommitted ==
    [][\A t \in Tasks :
         /\ (/\ drv[t].b = "check" /\ drv'[t].b # "check"
             /\ downloaded_img_count[t] # total_img_count[t])
            => (/\ state_sender'[t] = Failed
                /\ drv'[t].b = "done"
                /\ UNCHANGED <<temp_download_dir, chapter_download_dir, renamed>>)
         /\ (t \in renamed' /\ t \notin renamed)
            => downloaded_img_count[t] = total_img_count[t]]_vars

\* a task whose single image task failed has ended Failed without renaming
C7_Witness ==
    \E t \in Tasks :
        /\ drv[t].b = "done" /\ state_sender[t] = Failed
        /\ total_img_count[t] > 0 /\ downloaded_img_count[t] < total_img_count[t]
        /\ \A p \in PagesOf(t) : img[t][p].pc = "done"
        /\ t \notin renamed

\* C8: if the final directory of a chapter exists, it holds every page of the chapter.
C8_FinalDirComplete ==
    \A c \in Chapters :
        chapter_download_dir[c].ex => PageSet(ChapterSize(c)) \subseteq chapter_download_dir[c].files

\* C9: the number of drivers holding a chapter permit never exceeds the configured
\* chapter concurrency.
C9_ChapterPermitsBounded ==
    Cardinality({t \in Tasks : drv[t].permit}) <= config.chapter_concurrency

\* every chapter permit is held while another Pending task waits for one
C9_Witness ==
    /\ Cardinality({t \in Tasks : drv[t].permit}) = config.chapter_concurrency
    /\ \E t \in Tasks : /\ drv[t].pc = "select" /\ drv[t].isPend /\ ~drv[t].permit
                        /\ state_sender[t] = Pending

\* C10: the number of image tasks holding an image permit, which an image task needs
\* to execute its download body, never exceeds the configured image concurrency.
C10_ImgPermitsBounded ==
    Cardinality({tp \in Tasks \X Pages : img[tp[1]][tp[2]].permit}) <= config.img_concurrency

\* one image task is inside its body with the last permit while another waits for one
C10_Witness ==
    \E t, u \in Tasks, p, q \in Pages :
        /\ <<t, p>> # <<u, q>>
        /\ img[t][p].permit /\ img[t][p].b = "w_fetch" /\ img[t][p].pc = "select"
        /\ img[u][q].pc = "select" /\ img[u][q].isDl /\ ~img[u][q].permit /\ ~img[u][q].aborted
        /\ img_sem = 0

\* C11: a task that holds a chapter permit and is Paused does not stay so for ever:
\* its driver releases the permit (unless the state is changed again); and with every
\* permit taken by Paused tasks, a task waiting in Pending for a permit does not wait
\* for ever: it becomes Downloading (unless its own or a Paused holder's state is
\* changed again).
WaitsForPermit(t) ==
    /\ state_sender[t] = Pending
    /\ drv[t].pc \in {"loop", "loop2", "select"} /\ ~drv[t].permit

PausedHolders == {t \in Tasks : state_sender[t] = Paused /\ drv[t].permit}

C11_PauseReleasesPermit ==
    /\ \A t \in Tasks :
          (state_sender[t] = Paused /\ drv[t].permit)
          ~> (~drv[t].permit \/ state_sender[t] # Paused)
    /\ \A t \in Tasks :
          (WaitsForPermit(t) /\ chapter_sem = 0 /\ PausedHolders # {}
             /\ \A u \in Tasks : drv[u].permit => u \in PausedHolders)
          ~> (state_sender[t] # Pending \/ \E u \in Tasks : u # t /\ drv[u].permit /\ state_sender[u] # Paused)

\* chapter concurrency 1: A was downloading and is Paused without the permit, which B
\* now holds, Downloading
C11_Witness ==
    /\ config.chapter_concurrency = 1
    /\ \E a, b \in Tasks :
          /\ a # b
          /\ state_sender[a] = Paused /\ total_img_count[a] > 0 /\ ~drv[a].permit
          /\ drv[a].pc = "select"
          /\ state_sender[b] = Downloading /\ drv[b].permit

\* the driver of t and every image task of t that is alive have seen the present
\* value of the state cell
AllObserved(t) ==
    /\ DrvHasReceiver(t) /\ ~drv_chg[t]
    /\ \A p \in Pages : \/ img[t][p].pc \in {"none", "done"}
                        \/ ImgHasReceiver(t, p) /\ ~img_chg[t][p]

\* C12: pause_download_task changes nothing but the state cell of the registered task
\* (and what its receivers are told): no counter, no other task, no directory; and
\* while a task stays Paused, once its driver and its image tasks have observed
\* Paused, neither of its counters changes.
C12_PauseKeepsCounters ==
    [][/\ \A c \in Chapters :
            IsCall("pause", c)
            => (/\ UNCHANGED <<download_tasks, chapter_of, downloaded_img_count, total_img_count,
                               chapter_sem, img_sem, drv, img, temp_download_dir,
                               chapter_download_dir>>
                /\ \A u \in Tasks : u # download_tasks[c] => state_sender'[u] = state_sender[u])
       /\ \A t \in Tasks :
            (state_sender[t] = Paused /\ state_sender'[t] = Paused /\ AllObserved(t))
            => (/\ downloaded_img_count'[t] = downloaded_img_count[t]
                /\ total_img_count'[t] = total_img_count[t])]_vars

\* a pause has reached a task in the middle of a page download: everyone has observed
\* Paused, the page is not yet counted
C12_Witness ==
    \E t \in Tasks :
        /\ ret.op = "pause" /\ ret.ok /\ download_tasks[ret.chapter] = t
        /\ state_sender[t] = Paused /\ AllObserved(t)
        /\ total_img_count[t] > 0 /\ downloaded_img_count[t] < total_img_count[t]
        /\ \E p \in Pages : img[t][p].pc \in {"loop", "select"} /\ img[t][p].b = "w_fetch"

\* C13: when the body of an image task starts and the staging directory already
\* holds the page file (its name, the configured extension), the image task
\* increments downloaded_img_count by exactly one, calls no image fetch and ends,
\* leaving the staging directory as it is.
C13_StagedPageSkipsFetch ==
    [][\A t \in Tasks, p \in Pages :
         (/\ ImgStart(t, p)
          /\ temp_download_dir[chapter_of[t]].ex
          /\ [name |-> Pad3(p + 1), ext |-> Extension] \in temp_download_dir[chapter_of[t]].files)
         => (/\ downloaded_img_count'[t] = downloaded_img_count[t] + 1
             /\ ~img'[t][p].req /\ img'[t][p].pc = "done"
             /\ UNCHANGED <<temp_download_dir, chapter_download_dir>>)]_vars

\* a task run over a fully staged chapter has committed without a single image fetch
C13_Witness ==
    \E t \in Tasks :
        /\ t \in renamed /\ state_sender[t] = Completed
        /\ total_img_count[t] > 0 /\ downloaded_img_count[t] = total_img_count[t]
        /\ \A p \in PagesOf(t) : img[t][p].pc = "done" /\ ~img[t][p].req

\* the driver of t and all its image tasks have ended and hold no permit
Terminated(t) ==
    /\ drv[t].pc = "done" /\ ~drv[t].permit
    /\ \A p \in Pages : img[t][p].pc \in {"none", "done"} /\ ~img[t][p].permit

\* C14: once a task whose driver is running is Cancelled, its state stays Cancelled
\* unless the caller makes another call, and the driver and every image task of the
\* task eventually end, all their permits released.
C14_CancelTerminates ==
    /\ [][\A t \in Tasks :
             (state_sender[t] = Cancelled /\ state_sender'[t] # Cancelled)
             => calls' # calls]_vars
    /\ \A t \in Tasks :
          (state_sender[t] = Cancelled /\ DrvHasReceiver(t))
          ~> (Terminated(t) \/ state_sender[t] # Cancelled)

\* the staging directory of c is still there with every page file it held
StagedPagesKept(c) ==
    /\ temp_download_dir[c].ex => temp_download_dir'[c].ex
    /\ PageFilesIn(temp_download_dir[c]) \subseteq PageFilesIn(temp_download_dir'[c])

SignalPending(t) ==
    /\ drv[t].pc = "select" /\ drv_chg[t]
    /\ state_sender[t] \in {Paused, Cancelled}

\* the suspension is the wait for a chapter permit, the risk-control cooldown, the
\* randomized wait before a retry, or the delay between chapters
InWait(t) ==
    \/ drv[t].isPend /\ ~drv[t].permit /\ chapter_sem = 0
    \/ drv[t].b \in {"w_cool", "w_retry", "w_sleep"}

\* C16 as stated: with a pause or cancel pending while the driver is in one of the
\* four waits, the driver's next step is the reaction to it and nothing else: the
\* body has not moved and no countdown event was emitted.
C16_Original ==
    [][\A t \in Tasks :
         (SignalPending(t) /\ InWait(t) /\ drv'[t] # drv[t])
         => (/\ ~drv_chg'[t]
             /\ drv'[t].b = drv[t].b /\ drv'[t].ev = drv[t].ev /\ drv'[t].i = drv[t].i
             /\ drv'[t].rem = drv[t].rem /\ drv'[t].retry_count = drv[t].retry_count
             /\ state_sender'[t] = state_sender[t])]_vars

\* C16 (amended): with a pause or cancel pending while the driver is in one of the
\* four waits, the driver's next step takes it out of the wait: it is the reaction, or
\* one segment of the body that was ready, in whose poll the change is handled or the
\* body ends; it never goes back to wait. And once the driver has observed Paused or
\* Cancelled, no countdown event of the task is emitted while the state is not
\* changed again.
C16_SignalNotBlocked ==
    [][\A t \in Tasks :
         /\ (SignalPending(t) /\ InWait(t) /\ drv'[t] # drv[t])
            => drv'[t].pc \in {"loop", "exit"}
         /\ (/\ state_sender[t] \in {Paused, Cancelled} /\ state_sender'[t] = state_sender[t]
             /\ ~drv_chg[t] /\ drv[t].pc \notin {"none", "spawned"})
            => (drv'[t].ev = drv[t].ev /\ drv'[t].rem = drv[t].rem)]_vars

\* the driver has observed a pause in the middle of the risk-control cooldown
C16_Witness ==
    \E t \in Tasks :
        /\ state_sender[t] = Paused /\ ~drv_chg[t]
        /\ drv[t].pc = "select" /\ ~drv[t].permit
        /\ drv[t].b = "w_cool" /\ drv[t].i > 1 /\ drv[t].i < RETRY_WAIT_TIME

\* C17: a task tolerates 5 transient failures of the chapter fetch: after each of
\* the first 5 the fetch is attempted again, the 6th ends the protocol and the task
\* becomes Failed; no task ever receives a 7th, whatever risk-control responses come
\* in between.
C17_SixAttempts ==
    [][\A t \in Tasks :
         /\ drv'[t].fails <= 6
         /\ (drv[t].b = "w_retry" /\ drv'[t].b = "w_fetch")
            => (drv[t].fails <= 5 /\ drv'[t].retry_count = drv[t].fails)
         /\ (drv[t].b = "w_retry" /\ drv'[t].b = "done")
            => (drv[t].fails = 6 /\ state_sender'[t] = Failed)
         /\ (drv[t].b = "w_retry" /\ drv[t].fails = 6 /\ drv'[t].b # "w_retry")
            => drv'[t].b = "done"]_vars

\* the 6th transient failure, with a risk-control response in between, has made the
\* task Failed
C17_Witness ==
    \E t \in Tasks :
        /\ state_sender[t] = Failed /\ drv[t].b = "done"
        /\ drv[t].fails = 6 /\ drv[t].risks > 0 /\ total_img_count[t] = 0

\* C18: in the cooldown that follows a risk-control response the retry_after of the
\* events emitted so far are 59, 58, ... in that order, and the next fetch attempt is
\* made when exactly 60 have been emitted, the last one with retry_after 0.
C18_SixtyCountdownEvents ==
    [][\A t \in Tasks :
         /\ drv'[t].b = "w_cool"
            => (/\ Len(drv'[t].ev) \in 1..60
                /\ \A k \in 1..Len(drv'[t].ev) : drv'[t].ev[k] = 60 - k)
         /\ (drv[t].b = "w_cool" /\ drv'[t].b # "w_cool")
            => (/\ drv'[t].b = "w_fetch"
                /\ drv[t].ev = [k \in 1..60 |-> 60 - k])
         /\ (drv[t].b = "w_fetch" /\ drv'[t].b = "w_fetch" /\ drv'[t].risks = drv[t].risks)
            => drv'[t].ev = drv[t].ev]_vars

\* the cooldown of a risk-control response is over, its 60 events emitted, and the
\* next attempt is in flight
C18_Witness ==
    \E t \in Tasks :
        /\ drv[t].b = "w_fetch" /\ drv[t].pc = "select" /\ state_sender[t] = Downloading
        /\ drv[t].risks = 1 /\ Len(drv[t].ev) = 60 /\ drv[t].ev[60] = 0

\* C19: a risk-control response changes neither the state nor retry_count, it starts
\* a cooldown; a cooldown always ends in another fetch attempt, never in a failure;
\* and the body makes the task Failed or Completed only outside a cooldown.
C19_RiskControlNeverExhausts ==
    [][\A t \in Tasks :
         /\ drv'[t].risks # drv[t].risks
            => (/\ drv'[t].b = "w_cool"
                /\ drv'[t].retry_count = drv[t].retry_count /\ drv'[t].fails = drv[t].fails
                /\ state_sender'[t] = state_sender[t])
         /\ (drv[t].b = "w_cool" /\ drv'[t].b # "w_cool") => drv'[t].b = "w_fetch"
         /\ (drv[t].b = "w_cool" /\ state_sender'[t] \in {Failed, Completed})
            => state_sender'[t] = state_sender[t]]_vars

\* two risk-control responses in a row: the task is Downloading, its third attempt in
\* flight, the retry budget untouched
C19_Witness ==
    \E t \in Tasks :
        /\ drv[t].risks = 2 /\ drv[t].fails = 0 /\ drv[t].retry_count = 0
        /\ drv[t].b = "w_fetch" /\ drv[t].pc = "select" /\ drv[t].isDl
        /\ state_sender[t] = Downloading

\* C20: a generic error answer of the chapter fetch ends the body in that step: the
\* task becomes Failed, nothing is waited for, no directory is touched; and a body
\* that has ended takes no further step, so the task makes no other attempt and
\* creates no staging directory.
C20_GenericErrorAbortsAtOnce ==
    [][\A t \in Tasks :
         /\ GetChapter(t, "Anyhow")
            => (/\ state_sender'[t] = Failed
                /\ drv'[t].b = "done" /\ drv'[t].pc = "exit"
                /\ drv'[t].fails = drv[t].fails /\ drv'[t].retry_count = drv[t].retry_count
                /\ UNCHANGED <<temp_download_dir, chapter_download_dir, total_img_count>>)
         /\ drv[t].b = "done"
            => (/\ drv'[t].b = "done"
                /\ drv'[t].pc \in {"exit", "done"}
                /\ temp_download_dir'[chapter_of[t]] = temp_download_dir[chapter_of[t]])]_vars

\* after a cooldown the fetch answered with a generic error: the task is Failed with
\* retries left, its driver gone, and there is no staging directory
C20_Witness ==
    \E t \in Tasks :
        /\ state_sender[t] = Failed /\ drv[t].b = "done" /\ drv[t].pc = "done"
        /\ drv[t].risks = 1 /\ drv[t].fails = 1 /\ drv[t].retry_count = 1
        /\ total_img_count[t] = 0
        /\ ~temp_download_dir[chapter_of[t]].ex

\* the driver of t has set or handled a terminal state and is leaving its loop, or gone
ObservedTerminal(t) ==
    /\ state_sender[t] \in TerminalStates
    /\ drv[t].pc \in {"exit", "done"}

\* C21: once the driver of a task has set Completed or Failed, or handled Cancelled,
\* the state of that task instance never changes again, whatever call or step follows.
C21_TerminalIsFinal ==
    [][\A t \in Tasks :
         ObservedTerminal(t) => state_sender'[t] = state_sender[t]]_vars

\* a change of the state of t is one of the two steps of an undisturbed download
HappyStep(t) ==
    state_sender'[t] # state_sender[t]
    => <<state_sender[t], state_sender'[t]>> \in {<<Pending, Downloading>>, <<Downloading, Completed>>}

Completes(t) == state_sender[t] # Completed /\ state_sender'[t] = Completed

\* C22 as stated: left alone, with every operation succeeding, a task goes from Pending
\* to Downloading to Completed and through no other state, and when it becomes
\* Completed the final directory holds exactly the files 001.ext .. 00n.ext.
C22_Original ==
    /\ [][\A t \in Tasks :
             /\ HappyStep(t)
             /\ Completes(t)
                => chapter_download_dir'[chapter_of[t]].files = PageSet(ChapterSize(chapter_of[t]))]_vars
    /\ \A t \in Tasks : (drv[t].pc = "spawned") ~> (state_sender[t] = Completed)

\* C22 (amended): the same, the final directory holding the page files 001.ext ..
\* 00n.ext and, besides them, nothing but the chapter metadata file.
C22_UndisturbedDownload ==
    /\ [][\A t \in Tasks :
             /\ HappyStep(t)
             /\ Completes(t)
                => LET dir == chapter_download_dir'[chapter_of[t]]
                   IN  /\ dir.ex
                       /\ PageFilesIn(dir) = {[name |-> <<0, 0, k>>, ext |-> Extension] :
                                                k \in 1..ChapterSize(chapter_of[t])}
                       /\ dir.files \ PageFilesIn(dir) \subseteq {MetaFile}]_vars
    /\ \A t \in Tasks : (drv[t].pc = "spawned") ~> (state_sender[t] = Completed)

\* both tasks have completed, the second one a chapter whose metadata file was saved
C22_Witness ==
    /\ \A t \in Tasks : state_sender[t] = Completed /\ drv[t].pc = "done" /\ t \in renamed
    /\ \E t \in Tasks : MetaFile \in chapter_download_dir[chapter_of[t]].files

\* C23: downloaded_img_count never exceeds total_img_count; total_img_count is
\* written once, from 0, when the chapter accessor has answered and no image task of
\* the task exists yet, and a step taken while an image task exists never changes it.
C23_CountersOrdered ==
    [][\A t \in Tasks :
         /\ downloaded_img_count'[t] <= total_img_count'[t]
         /\ total_img_count'[t] # total_img_count[t]
            => (/\ total_img_count[t] = 0 /\ downloaded_img_count[t] = 0
                /\ drv[t].b = "w_fetch"
                /\ \A p \in Pages : img[t][p].pc = "none")
         /\ (\E p \in Pages : img[t][p].pc # "none")
            => total_img_count'[t] = total_img_count[t]]_vars

\* every page of a task has been fetched and counted: the counters are equal
C23_Witness ==
    \E t \in Tasks :
        /\ total_img_count[t] = ChapterSize(chapter_of[t]) /\ total_img_count[t] > 0
        /\ downloaded_img_count[t] = total_img_count[t]
        /\ \A p \in PagesOf(t) : img[t][p].pc = "done" /\ img[t][p].req

\* C24: a task renames the staging directory, and becomes Completed, only with
\* downloaded_img_count equal to total_img_count and total_img_count greater than 0.
C24_CommitNeedsPages ==
    [][\A t \in Tasks :
         ((t \in renamed' /\ t \notin renamed) \/ Completes(t))
         => (downloaded_img_count[t] = total_img_count[t] /\ total_img_count[t] > 0)]_vars

\* the position and the locals of download_chapter
BodyFields(d) == <<d.b, d.rem, d.retry_count, d.i, d.ev, d.fails, d.risks>>

\* the body of t advances: it moves on, emits a countdown event, records the page
\* count, spawns its image tasks or renames
BodyMoved(t) ==
    \/ BodyFields(drv'[t]) # BodyFields(drv[t])
    \/ total_img_count'[t] # total_img_count[t]
    \/ t \in renamed' /\ t \notin renamed
    \/ \E p \in Pages : img[t][p].pc = "none" /\ img'[t][p].pc # "none"

\* the driver of t has handled Paused and the state has not been changed since
ObservedPaused(t) == state_sender[t] = Paused /\ ~drv_chg[t] /\ DrvHasReceiver(t)

\* C25: the body advances only in an iteration of the driver that read Downloading
\* and holds a chapter permit. A driver that has observed Paused holds no permit and
\* is in no such iteration, so its body stands still; an iteration reads Downloading
\* only from the state cell, and only the driver's own write after acquiring a permit
\* puts Downloading there.
C25_BodyNeedsDownloadingAndPermit ==
    [][\A t \in Tasks :
         /\ BodyMoved(t) => (drv[t].pc = "select" /\ drv[t].isDl /\ drv[t].permit)
         /\ ObservedPaused(t)
            => (~drv[t].permit /\ ~(drv[t].pc = "select" /\ drv[t].isDl) /\ ~BodyMoved(t))
         /\ (drv[t].pc = "loop" /\ drv'[t].pc = "loop2" /\ drv'[t].isDl)
            => state_sender[t] = Downloading
         /\ (state_sender'[t] = Downloading /\ state_sender[t] # Downloading)
            => (drv[t].pc = "send" /\ drv[t].permit)]_vars

\* the driver has observed a pause during the wait before the third fetch attempt
C25_Witness ==
    \E t \in Tasks :
        /\ ObservedPaused(t) /\ drv[t].pc = "select" /\ ~drv[t].permit
        /\ drv[t].b = "w_retry" /\ drv[t].fails = 2 /\ drv[t].retry_count = 1

\* C26: whenever the state of a task becomes Downloading, the value it replaces is
\* Pending: a Paused or Cancelled written before the driver's write is never replaced.
C26_DownloadingOnlyFromPending ==
    [][\A t \in Tasks :
         (state_sender'[t] = Downloading /\ state_sender[t] # Downloading)
         => state_sender[t] = Pending]_vars

\* the image task of page p of t takes an image permit
TakesImgPermit(t, p) == img'[t][p].permit /\ ~img[t][p].permit

\* download_img of page p of t advances (the end of the image task by an abort or by
\* handling Cancelled is not a step of download_img)
ImgBodyMoved(t, p) ==
    \/ img'[t][p].b # img[t][p].b /\ img'[t][p].b # "done"
    \/ img'[t][p].req # img[t][p].req
    \/ /\ img'[t][p].b = "done" /\ img[t][p].b # "done"
       /\ ~img[t][p].aborted
       /\ ~(img_chg[t][p] /\ state_sender[t] = Cancelled)

\* C27 as stated, its last part: an image task takes an image permit only while the
\* state of its chapter is Downloading.
C27_Original ==
    [][\A t \in Tasks, p \in Pages :
         TakesImgPermit(t, p) => state_sender[t] = Downloading]_vars

\* C27 (amended): an image task takes an image permit only in an iteration that read
\* Downloading and holds none; download_img advances, and the counter of downloaded
\* pages grows, only in an iteration that read Downloading and holds a permit; an
\* iteration reads Downloading only from the state cell, so an image task whose
\* iteration read Paused, Pending or Cancelled takes no permit.
C27_ImgEligibility ==
    [][\A t \in Tasks :
         /\ \A p \in Pages :
              /\ TakesImgPermit(t, p)
                 => (img[t][p].pc = "select" /\ img[t][p].isDl /\ ~img[t][p].permit)
              /\ ImgBodyMoved(t, p)
                 => (img[t][p].pc = "select" /\ img[t][p].isDl /\ img[t][p].permit)
              /\ (img[t][p].pc = "loop" /\ img'[t][p].pc = "select" /\ img'[t][p].isDl)
                 => state_sender[t] = Downloading
         /\ downloaded_img_count'[t] > downloaded_img_count[t]
            => \E p \in Pages : img[t][p].pc = "select" /\ img[t][p].isDl /\ img[t][p].permit]_vars

\* an image task has observed Paused without a permit: it does not take the one that
\* is available
C27_Witness ==
    \E t \in Tasks, p \in Pages :
        /\ state_sender[t] = Paused /\ ~img_chg[t][p]
        /\ img[t][p].pc = "select" /\ ~img[t][p].isDl /\ ~img[t][p].permit
        /\ ~img[t][p].aborted /\ img[t][p].b = "start"
        /\ img_sem > 0

\* the image task of page p of t is alive and has handled the latest change of the
\* state of t
ImgObserved(t, p) == ImgHasReceiver(t, p) /\ ~img[t][p].aborted /\ ~img_chg[t][p]

\* C28: an image task that has handled the latest change of the state of its chapter
\* holds no image permit unless that state is Downloading.
C28_NoPermitUnlessDownloading ==
    \A t \in Tasks, p \in Pages :
        (ImgObserved(t, p) /\ state_sender[t] # Downloading) => ~img[t][p].permit

\* the image request or save_img of page p of t fails in this step
ImgFails(t, p) ==
    \E fetched \in BOOLEAN, saved \in BOOLEAN :
        /\ ImgFetched(t, p, fetched, saved)
        /\ ~(fetched /\ saved /\ SavePossible(chapter_of[t]))

\* the positions of download_chapter after join_all
AfterJoin == {"check", "rmfinal", "rename", "meta", "w_sleep"}

\* C29: download_chapter compares the counters, and renames, only when every image
\* task of the task has ended; the step in which an image task fails changes neither
\* its siblings, nor the driver, nor the state; and an image task is aborted only by
\* the return of the driver.
C29_JoinWaitsForAll ==
    [][\A t \in Tasks :
         /\ (drv'[t].b \in AfterJoin \/ (t \in renamed' /\ t \notin renamed))
            => \A p \in PagesOf(t) : img'[t][p].pc = "done"
         /\ \A p \in Pages :
              ImgFails(t, p)
              => (/\ img'[t][p].pc = "done"
                  /\ \A q \in Pages \ {p} : img'[t][q] = img[t][q] /\ img_chg'[t][q] = img_chg[t][q]
                  /\ drv'[t] = drv[t] /\ state_sender'[t] = state_sender[t])
         /\ \A q \in Pages :
              (img'[t][q].aborted /\ ~img[t][q].aborted)
              => (drv[t].pc = "exit" /\ drv'[t].pc = "done")]_vars

\* the image task of page 0 has failed; that of page 1 has taken the image permit
\* after it and is downloading, the driver waiting in join_all
C29_Witness ==
    \E t \in Tasks :
        /\ ChapterSize(chapter_of[t]) = 2 /\ drv[t].b = "w_join" /\ drv[t].pc = "select"
        /\ state_sender[t] = Downloading
        /\ img[t][0].pc = "done" /\ img[t][0].req /\ downloaded_img_count[t] = 0
        /\ img[t][1].pc = "select" /\ img[t][1].permit /\ img[t][1].b = "w_fetch"
        /\ ~img[t][1].aborted

\* the image task of page p of t ends in this step
ImgEnds(t, p) == img'[t][p].pc = "done" /\ img[t][p].pc # "done"

\* the position of download_img: how far it has come
ImgRank(b) == CASE b = "start" -> 0 [] b = "w_fetch" -> 1 [] b = "w_sleep" -> 2 [] OTHER -> 3

\* C30 as stated, its middle part: an image task that ends without having incremented
\* downloaded_img_count is one whose fetch or save fails.
C30_Original ==
    [][\A t \in Tasks, p \in Pages :
         (/\ ImgEnds(t, p)
          /\ img[t][p].b \in {"start", "w_fetch"}
          /\ downloaded_img_count'[t] = downloaded_img_count[t])
         => ImgFails(t, p)]_vars

\* C30 (amended): download_img only moves forward, so the image request is sent at
\* most once, from its start; downloaded_img_count grows by one at a time, in the one
\* step of an image task that leaves the start for the end (page staged) or the request
\* for the interval sleep (page saved); an image task that ends without having
\* incremented is one whose fetch or save fails, or one that handles Cancelled or is
\* aborted; the failing step ends the image task and changes neither the state of the
\* task nor its driver.
C30_NoImageRetry ==
    [][\A t \in Tasks :
         /\ \A p \in Pages :
              /\ img[t][p].pc # "none" => ImgRank(img'[t][p].b) >= ImgRank(img[t][p].b)
              /\ img'[t][p].req # img[t][p].req
                 => (~img[t][p].req /\ img[t][p].b = "start" /\ img'[t][p].b # "start")
              /\ (/\ ImgEnds(t, p)
                  /\ img[t][p].b \in {"start", "w_fetch"}
                  /\ downloaded_img_count'[t] = downloaded_img_count[t])
                 => \/ ImgFails(t, p)
                    \/ img[t][p].aborted
                    \/ img_chg[t][p] /\ state_sender[t] = Cancelled
              /\ ImgFails(t, p)
                 => (/\ img'[t][p].pc = "done"
                     /\ state_sender'[t] = state_sender[t] /\ drv'[t] = drv[t]
                     /\ downloaded_img_count'[t] = downloaded_img_count[t])
         /\ downloaded_img_count'[t] # downloaded_img_count[t]
            => (/\ downloaded_img_count'[t] = downloaded_img_count[t] + 1
                /\ \E p \in Pages :
                     /\ \A q \in Pages \ {p} : img'[t][q].b = img[t][q].b
                     /\ \/ img[t][p].b = "start" /\ img'[t][p].b = "done"
                        \/ img[t][p].b = "w_fetch" /\ img'[t][p].b \in {"w_sleep", "done"})]_vars

\* one page of a task was saved and counted, the other failed: every image task has
\* ended, the task is Failed with one page of two
C30_Witness ==
    \E t \in Tasks :
        /\ total_img_count[t] = 2 /\ downloaded_img_count[t] = 1
        /\ \A p \in PagesOf(t) : img[t][p].pc = "done" /\ img[t][p].req
        /\ state_sender[t] = Failed /\ drv[t].b = "done"
        /\ Cardinality(PageFilesIn(temp_download_dir[chapter_of[t]])) = 1

\* ------------------------------------------------------------------ C31
\* the sleeping events of a delay of n seconds: remaining_sec n, n-1, ..., 1
Countdown(n) == [k \in 1..n |-> n - k + 1]

\* the body of t is inside sleep_between_chapter and its driver still runs
InDelay(t) == drv[t].b = "w_sleep" /\ drv[t].pc \in {"loop", "select", "send"}

\* C31 as stated: during the inter-chapter delay the state of the task is Downloading
\* and the task holds its chapter permit
C31_Original ==
    \A t \in Tasks : InDelay(t) => state_sender[t] = Downloading /\ drv[t].permit

\* C31: Completed is written only after the rename has succeeded and every second of
\* the delay has been counted; the delay starts after the rename with an event that
\* carries the whole interval; each second is counted in an iteration of the driver
\* that read Downloading and holds the chapter permit, and emits the next lower
\* remaining_sec; the events emitted so far are interval, ..., rem and the state is
\* not Completed; a task in the delay whose state Downloading the driver has seen
\* holds its permit (a pause or a cancel in the delay changes the state, and the
\* handled pause gives the permit back)
C31_DelayBeforeCompleted ==
    [][\A t \in Tasks :
         /\ Completes(t)
            => /\ t \in renamed
               /\ drv[t].b = "w_sleep"
               /\ drv[t].isDl /\ drv[t].permit
               /\ drv[t].sleeping = Countdown(chapter_download_interval_sec)
         /\ drv[t].b # "w_sleep" /\ drv'[t].b = "w_sleep"
            => /\ t \in renamed
               /\ drv'[t].sleeping = <<chapter_download_interval_sec>>
               /\ state_sender'[t] = state_sender[t]
         /\ drv[t].b = "w_sleep" /\ drv'[t].sleeping # drv[t].sleeping
            => /\ drv[t].isDl /\ drv[t].permit
               /\ drv'[t].sleeping = Append(drv[t].sleeping, drv[t].rem - 1)
               /\ state_sender'[t] = state_sender[t]
         /\ InDelay(t)
            => /\ state_sender[t] # Completed
               /\ drv[t].rem \in 1..chapter_download_interval_sec
               /\ drv[t].sleeping
                    = SubSeq(Countdown(chapter_download_interval_sec), 1,
                             chapter_download_interval_sec - drv[t].rem + 1)
               /\ state_sender[t] = Downloading /\ ~drv_chg[t] /\ drv[t].pc # "send"
                  => drv[t].permit]_vars

\* a task has completed after a delay of more than one second whose events were all
\* emitted
C31_Witness ==
    \E t \in Tasks :
        /\ state_sender[t] = Completed
        /\ drv[t].b = "done"
        /\ t \in renamed
        /\ chapter_download_interval_sec > 1
        /\ drv[t].sleeping = Countdown(chapter_download_interval_sec)

\* ------------------------------------------------------------------ C32
\* a later task has been created for the chapter id of t (task ids are given in the
\* order of creation)
Superseded(t) ==
    chapter_of[t] # "" /\ \E u \in Tasks : u > t /\ chapter_of[u] = chapter_of[t]

\* the step is one of the driver or of an image task of t
StepOf(t) == drv'[t] # drv[t] \/ img'[t] # img[t]

\* C32: once a new task has been created for the chapter id of a task, the driver and
\* the image tasks of the superseded task write no page, remove no directory, rename
\* nothing and write no metadata: their steps leave the staging and the final
\* directories as they are.
C32_SupersededWritesNothing ==
    [][\A t \in Tasks :
         Superseded(t) /\ StepOf(t)
         => UNCHANGED <<temp_download_dir, chapter_download_dir>>]_vars

\* ------------------------------------------------------------------ C33
\* the step is the speed loop's swap: the counter goes to zero and its value is taken
IsSwap == byte_per_sec' = 0 /\ meter'.swapped = meter.swapped + byte_per_sec

\* an image task of t fetches and saves page p and adds its length to the counter
AddsBytes(t, p) ==
    /\ ImgFetched(t, p, TRUE, TRUE)
    /\ SavePossible(chapter_of[t])
    /\ byte_per_sec' = byte_per_sec + img_data_len(p)
    /\ meter'.added = meter.added + img_data_len(p)
    /\ PageFile(p) \in temp_download_dir'[chapter_of[t]].files

\* C33 as stated: the speeds emitted so far, taken back to bytes, and the current
\* counter add up to the bytes added (emitted is in hundredths of a MB/s)
C33_Original ==
    meter.emitted * 1048576 + 100 * byte_per_sec = 100 * meter.added

\* C33: every byte is accounted once: the values taken by the swaps and the current
\* counter add up to the bytes added, whatever the interleaving of the image tasks
\* and the speed loop; the counter changes only by a swap to zero or by an image task
\* that fetched and saved its page, which adds the length of that image; a page that
\* is skipped because it is staged, and a fetch or a save that fails, add nothing.
C33_EveryByteOnce ==
    [][/\ meter.swapped + byte_per_sec = meter.added
       /\ meter'.swapped + byte_per_sec' = meter'.added
       /\ byte_per_sec' # byte_per_sec \/ meter'.added # meter.added
          => \/ IsSwap /\ meter'.added = meter.added
             \/ \E t \in Tasks, p \in Pages : AddsBytes(t, p)
       /\ \A t \in Tasks, p \in Pages :
            /\ ImgStart(t, p) /\ PageStaged(t, p) => UNCHANGED meterVars
            /\ ImgFails(t, p) => UNCHANGED meterVars]_vars

\* bytes were added before and after a swap, and more pages were counted than
\* images were saved: a page staged by the first task was skipped by the second
C33_Witness ==
    /\ meter.swapped > 0
    /\ byte_per_sec > 0
    /\ meter.added = img_data_len(0) + img_data_len(1)
    /\ \E t \in Tasks, u \in Tasks :
         t # u /\ downloaded_img_count[t] + downloaded_img_count[u] > 2

\* ------------------------------------------------------------------ C34
\* an image task of t has been spawned
ImgSpawned(t) == \E p \in Pages : img[t][p].pc # "none"

\* the step is the cleaning of the staging directory by the body of t
Cleans(t) == drv[t].pc = "select" /\ drv[t].b = "clean" /\ drv'[t].b # "clean"

LeftToRun(t) == chapter_of[t] # "" /\ calls = MaxCalls /\ state_sender[t] # Paused

\* an image task of t waits for an image permit
ImgWaitsForPermit(t) ==
    \E p \in Pages : img[t][p].pc = "select" /\ img[t][p].isDl /\ ~img[t][p].permit

\* an image task of t holds an image permit and does nothing: the state it read is
\* not Downloading and no change is pending
ImgIdleHolder(t) ==
    \E p \in Pages :
        /\ img[t][p].permit /\ img[t][p].pc = "select" /\ ~img[t][p].isDl
        /\ ~img_chg[t][p]

\* t waits for the chapter permit held by u, whose image tasks wait for the image
\* permit held by an idle image task of t
CrossWait(t, u) ==
    /\ t # u
    /\ WaitsForPermit(t) /\ ~drv_chg[t] /\ chapter_sem = 0
    /\ drv[u].permit /\ state_sender[u] = Downloading /\ ~drv_chg[u]
    /\ ImgWaitsForPermit(u) /\ img_sem = 0
    /\ ImgIdleHolder(t)

\* C35: once the caller has made its last pause or resume call and a task is not left
\* paused, the body of the task eventually ends, having written Completed or Failed
\* (every fetch returns, none with a risk-control outcome).
C35_EveryTaskEnds ==
    \A t \in Tasks : LeftToRun(t) ~> drv[t].b = "done"

\* C35, the state it rules out: no chapter waits for the chapter permit of a second
\* chapter whose image tasks wait for image permits held by idle image tasks of the
\* first
C35_NoCrossWait ==
    \A t \in Tasks, u \in Tasks : ~CrossWait(t, u)

\* ------------------------------------------------------------------ C36
\* process() of t has returned
DriverGone(t) == drv[t].pc = "done"

\* C36: every registry entry whose state is Pending, Downloading or Paused has a
\* driver that has not returned.
C36_NoOrphan ==
    \A c \in Chapters :
        (download_tasks[c] # NoTask /\ state_sender[download_tasks[c]] \in ActiveStates)
        => ~DriverGone(download_tasks[c])

\* ------------------------------------------------------------------ C37
\* the step is a cancel_download_task that returns success for the registered task t,
\* which is Pending and has never held a chapter permit: its body has not started, it
\* holds no permit and the caller has only created tasks so far, so that no pause has
\* made it give a permit back
CancelBeforePermit(t) ==
    /\ chapter_of[t] # ""
    /\ download_tasks[chapter_of[t]] = t
    /\ IsCall("cancel", chapter_of[t]) /\ ret'.ok
    /\ ret.op = "create"
    /\ state_sender[t] = Pending
    /\ ~drv[t].permit /\ drv[t].b = "start" /\ drv[t].pc # "send"

\* C37: a cancel_download_task that returns success for a task that has never held a
\* chapter permit leaves the task Cancelled; no later step of the task stores
\* Cancelled, so this is what the task needs to end Cancelled without a chapter
\* request and without a staging directory.
C37_EarlyCancelTakesEffect ==
    [][\A t \in Tasks : CancelBeforePermit(t) => state_sender'[t] = Cancelled]_vars

\* ------------------------------------------------------------------ C38
ChapterPermitHolders == {t \in Tasks : drv[t].permit}
ImgPermitHolders == {tp \in Tasks \X Pages : img[tp[1]][tp[2]].permit}

\* every driver and every image task that was started has ended
AllTerminated ==
    \A t \in Tasks :
        /\ drv[t].pc \in {"none", "done"}
        /\ \A p \in Pages : img[t][p].pc \in {"none", "done"}

\* C38: a driver that has returned holds no chapter permit and an image task that has
\* ended holds no image permit; every permit missing from a semaphore is held by a
\* driver or an image task; so once every driver and image task has ended, both
\* semaphores are back at their configured capacity.
C38_PermitsNeverLeak ==
    /\ \A t \in Tasks : drv[t].pc = "done" => ~drv[t].permit
    /\ \A t \in Tasks, p \in Pages : img[t][p].pc = "done" => ~img[t][p].permit
    /\ chapter_sem + Cardinality(ChapterPermitHolders) = config.chapter_concurrency
    /\ img_sem + Cardinality(ImgPermitHolders) = config.img_concurrency
    /\ AllTerminated => /\ chapter_sem = config.chapter_concurrency
                        /\ img_sem = config.img_concurrency

\* two drivers have returned, one after its rename and one after a cancel that ended
\* its image task, every task has ended and the semaphores are full
C38_Witness ==
    /\ AllTerminated
    /\ \E t \in Tasks, u \in Tasks :
         /\ t # u
         /\ drv[t].pc = "done" /\ t \in renamed
         /\ drv[u].pc = "done" /\ state_sender[u] = Cancelled /\ img[u][0].pc = "done"
    /\ chapter_sem = config.chapter_concurrency
    /\ img_sem = config.img_concurrency

\* ------------------------------------------------------------------ C39
\* the body of t ends in this step by writing Failed
EndsFailed(t) ==
    /\ drv[t].b # "done" /\ drv'[t].b = "done"
    /\ state_sender'[t] = Failed

\* C39: when a task ends Failed, a final directory of its chapter that existed when
\* the task was created still exists with the content it had.
C39_FailedKeepsCommitted ==
    [][\A t \in Tasks :
         EndsFailed(t) /\ drv[t].before.ex
         => chapter_download_dir'[chapter_of[t]] = drv[t].before]_vars

\* ------------------------------------------------------------------ C40
\* C40: a create_download_task that returns an error leaves the registry as it was.
C40_FailedCreateKeepsRegistry ==
    [][\A c \in Chapters :
         IsCall("create", c) /\ ~ret'.ok => download_tasks' = download_tasks]_vars

====
